---- MODULE Spec2Model ----
(***************************************************************************)
(* idlecat (src/idlecat.c): a pass-through filter from stdin to stdout     *)
(* that tracks whether the stream is idle or active and runs external      *)
(* commands on the transitions and on end of file.                         *)
(*                                                                         *)
(* The model follows main() statement by statement.  pc is the position of *)
(* the single thread of control.  One action is one system call with its   *)
(* outcome (select, read, write, the return of system), or one of the      *)
(* three tests of the loop: the loop condition, the idle to active check   *)
(* after a chunk is written, and the idle timeout check.  Time is what     *)
(* time(NULL) returns, in whole seconds, taken as non-decreasing; it       *)
(* advances only while the process is blocked in select(), write() or      *)
(* system().  A select() that times out has waited the whole interval.     *)
(***************************************************************************)
EXTENDS Integers, Sequences, FiniteSets, TLC

\* ------------------------------------------------------------------ bounds
MaxTime       == 3   \* the clock stops advancing at this second
MaxInput      == 2   \* bytes the input stream delivers at most
MaxTimeout    == 2   \* largest idle_timeout tried (-t)
MaxThreshold  == 2   \* largest threshold tried (-i, -a)
MaxActionTime == 1   \* seconds a command run by system() may take
MaxWriteTime  == 1   \* seconds one write() may block

\* -------------------------------------------------------- program constants
BUFFER_SIZE   == 4096
PollInterval  == 1   \* tv.tv_sec

Bytes      == {0, 1}
ReadErrnos  == {"EAGAIN", "EWOULDBLOCK", "EINTR", "EIO"}
WriteErrnos == {"EINTR", "EAGAIN", "EPIPE"}
SelectErrnos == {"EINTR", "EBADF"}
Statuses   == {"ok", "nonzero", "notfound"}   \* what system() may return
Commands   == {"idle_to_active", "active_to_idle", "eof"}

Min(a, b) == IF a <= b THEN a ELSE b

\* All sequences over S of length 1..n.
RECURSIVE SeqsUpTo(_, _)
SeqsUpTo(S, n) ==
    IF n = 0 THEN {}
    ELSE LET shorter == SeqsUpTo(S, n - 1)
         IN  {<<b>> : b \in S} \cup {Append(s, b) : s \in shorter, b \in S}

VARIABLES
    config,            \* Config, as parse_args returned it
    now,               \* the clock: what time(NULL) returns
    pc,                \* position of control in main()
    exit_code,         \* "none" while running, then EXIT_SUCCESS / EXIT_FAILURE
    current_time,      \* the snapshot of this iteration
    last_data_time,
    state_start_time,
    is_idle,
    eof_reached,
    buffer,            \* the valid part of buffer[]: the chunk last read
    bytes_read,
    bytes_written,
    ret,               \* result of select()
    errno,             \* errno of the call that has just failed, else "none"
    stdin_read,        \* every byte read() has delivered so far, in order
    stdout,            \* every byte write() has accepted so far, in order
    running,           \* the command system() is executing, or "none"
    status,            \* what the system() that has just returned gave, else "none"
    calls,             \* how many times each command has been started
    was_idle           \* is_idle when this iteration's select() returned

vars == <<config, now, pc, exit_code, current_time, last_data_time,
          state_start_time, is_idle, eof_reached, buffer, bytes_read,
          bytes_written, ret, errno, stdin_read, stdout, running, status,
          calls, was_idle>>

\* The variables of the monitor state machine proper.
monitor == <<last_data_time, state_start_time, is_idle, eof_reached>>
\* The variables of the copy loop.
io == <<buffer, bytes_read, bytes_written, stdin_read, stdout>>
\* The variables of command execution.
cmd == <<running, calls>>
\* No call fails and no system() returns in this step.
Quiet == errno' = "none" /\ status' = "none"

\* A variant of Configs that lets -t 0 through (< 0 tested instead of <= 0).
ConfigsWithZeroTimeout ==
    [idle_timeout             : 0..MaxTimeout,
     idle_to_active_threshold : 1..MaxThreshold,
     active_to_idle_threshold : 1..MaxThreshold,
     idle_to_active_command   : BOOLEAN,
     active_to_idle_command   : BOOLEAN,
     eof_command              : BOOLEAN]

\* parse_args: every numeric option is positive; a command is present or NULL.
Configs ==
    [idle_timeout             : 1..MaxTimeout,
     idle_to_active_threshold : 1..MaxThreshold,
     active_to_idle_threshold : 1..MaxThreshold,
     idle_to_active_command   : BOOLEAN,
     active_to_idle_command   : BOOLEAN,
     eof_command              : BOOLEAN]

Init ==
    /\ config \in Configs
    /\ now = 0
    /\ pc = "loop"
    /\ exit_code = "none"
    /\ current_time = 0
    /\ last_data_time = 0
    /\ state_start_time = 0
    /\ is_idle = TRUE
    /\ eof_reached = FALSE
    /\ buffer = <<>>
    /\ bytes_read = 0
    /\ bytes_written = 0
    /\ ret = 0
    /\ errno = "none"
    /\ stdin_read = <<>>
    /\ stdout = <<>>
    /\ running = "none"
    /\ status = "none"
    /\ calls = [c \in Commands |-> 0]
    /\ was_idle = TRUE

\* exit(EXIT_FAILURE) after perror().
Die ==
    /\ pc' = "exited"
    /\ exit_code' = "EXIT_FAILURE"

\* system(command): the caller blocks until SystemReturns.
System(c, at) ==
    /\ running' = c
    /\ calls' = [calls EXCEPT ![c] = @ + 1]
    /\ pc' = at

\* A variant of SystemReturns that does not wait for the command: the caller
\* goes on while the command is still running.
SystemReturnsWithoutWaiting(c, d, st) ==
    /\ running = c
    /\ now + d <= MaxTime
    /\ now' = now + d
    /\ running' = running
    /\ status' = st
    /\ calls' = calls

\* system() comes back after the command ran for d seconds; its result is dropped.
SystemReturns(c, d, st) ==
    /\ running = c
    /\ now + d <= MaxTime
    /\ now' = now + d
    /\ running' = "none"
    /\ status' = st
    /\ calls' = calls

\* A variant of LoopContinues that forgets the loop condition: while (1).
LoopForever(eof) == TRUE

\* while (!eof_reached)
LoopContinues(eof) == ~eof

\* A variant of ReadIsFatal that also carries on after an I/O error.
ReadIsFatalLenient(e) == e # "EAGAIN" /\ e # "EWOULDBLOCK" /\ e # "EIO"

\* errno != EAGAIN && errno != EWOULDBLOCK
ReadIsFatal(e) == e # "EAGAIN" /\ e # "EWOULDBLOCK"

\* errno == EINTR: continue
WriteIsRetried(e) == e = "EINTR"

\* A variant of WriteChunk that forgets the offset: write(STDOUT_FILENO, buffer, ...).
WriteChunkFromStart(out, buf, off, n) == out \o SubSeq(buf, 1, n)

\* write(STDOUT_FILENO, buffer + off, ...) accepting n bytes.
WriteChunk(out, buf, off, n) == out \o SubSeq(buf, off + 1, off + n)

\* A variant of IdleToActiveFires that forgets the threshold.
IdleToActiveFiresAlways(cfg, idle_duration) == cfg.idle_to_active_command

\* idle_duration >= config.idle_to_active_threshold && config.idle_to_active_command
IdleToActiveFires(cfg, idle_duration) ==
    /\ idle_duration >= cfg.idle_to_active_threshold
    /\ cfg.idle_to_active_command

\* A variant of ActiveToIdleFires that forgets the threshold.
ActiveToIdleFiresAlways(cfg, active_duration) == cfg.active_to_idle_command

\* active_duration >= config.active_to_idle_threshold && config.active_to_idle_command
ActiveToIdleFires(cfg, active_duration) ==
    /\ active_duration >= cfg.active_to_idle_threshold
    /\ cfg.active_to_idle_command

\* A variant of IdleTimeoutReached that forgets to test the state.
IdleTimeoutAnyState(idle, time_since_last_data, cfg) ==
    time_since_last_data >= cfg.idle_timeout

\* A variant of IdleTimeoutReached that compares with > instead of >=.
IdleTimeoutPassed(idle, time_since_last_data, cfg) ==
    /\ ~idle
    /\ time_since_last_data > cfg.idle_timeout

\* !is_idle && time_since_last_data >= config.idle_timeout
IdleTimeoutReached(idle, time_since_last_data, cfg) ==
    /\ ~idle
    /\ time_since_last_data >= cfg.idle_timeout

\* A variant of AfterSystem that gives up when the command did not succeed.
AfterSystemChecked(st, next) == IF st = "ok" THEN next ELSE "exited"

\* The statement reached when system() returned st: the result is not tested.
AfterSystem(st, next) == next

\* A variant of BecomeActive that forgets to restart the state's clock.
BecomeActiveKeepingStart ==
    /\ is_idle' = FALSE
    /\ state_start_time' = state_start_time

\* is_idle = false; state_start_time = current_time;
BecomeActive ==
    /\ is_idle' = FALSE
    /\ state_start_time' = current_time

\* A variant of BecomeIdle that forgets to restart the state's clock.
BecomeIdleKeepingStart ==
    /\ is_idle' = TRUE
    /\ state_start_time' = state_start_time

\* is_idle = true; state_start_time = current_time;
BecomeIdle ==
    /\ is_idle' = TRUE
    /\ state_start_time' = current_time

\* ------------------------------------------------------------------ actions

\* The loop condition; past the loop, return EXIT_SUCCESS.
LoopTest ==
    /\ pc = "loop"
    /\ IF LoopContinues(eof_reached)
       THEN pc' = "select" /\ exit_code' = exit_code
       ELSE pc' = "exited" /\ exit_code' = "EXIT_SUCCESS"
    /\ Quiet
    /\ UNCHANGED <<config, now, current_time, monitor, io, ret, cmd, was_idle>>

\* select() returns -1.
SelectFails ==
    /\ pc = "select"
    /\ \E e \in SelectErrnos : errno' = e
    /\ ret' = -1
    /\ Die
    /\ status' = "none"
    /\ UNCHANGED <<config, now, current_time, monitor, io, cmd, was_idle>>

\* A variant of SelectTimesOut that forgets to test ret > 0 and reads anyway.
SelectTimesOutThenReads ==
    /\ pc = "select"
    /\ now + PollInterval <= MaxTime
    /\ now' = now + PollInterval
    /\ ret' = 0
    /\ current_time' = now'
    /\ was_idle' = is_idle
    /\ pc' = "read"
    /\ Quiet
    /\ UNCHANGED <<config, exit_code, monitor, io, cmd>>

\* select() returns 0 after the whole interval; then the snapshot is taken and,
\* nothing being readable, control reaches the idle check.
SelectTimesOut ==
    /\ pc = "select"
    /\ now + PollInterval <= MaxTime
    /\ now' = now + PollInterval
    /\ ret' = 0
    /\ current_time' = now'
    /\ was_idle' = is_idle
    /\ pc' = "idle_check"
    /\ Quiet
    /\ UNCHANGED <<config, exit_code, monitor, io, cmd>>

\* select() reports stdin readable within the interval; then the snapshot is taken.
SelectReady ==
    /\ pc = "select"
    /\ \E d \in 0..PollInterval :
          /\ now + d <= MaxTime
          /\ now' = now + d
    /\ ret' = 1
    /\ current_time' = now'
    /\ was_idle' = is_idle
    /\ pc' = "read"
    /\ Quiet
    /\ UNCHANGED <<config, exit_code, monitor, io, cmd>>

\* read() delivers a chunk of 1..BUFFER_SIZE bytes.
ReadData ==
    /\ pc = "read"
    /\ \E chunk \in SeqsUpTo(Bytes, Min(BUFFER_SIZE, MaxInput - Len(stdin_read))) :
          /\ buffer' = chunk
          /\ bytes_read' = Len(chunk)
          /\ stdin_read' = stdin_read \o chunk
    /\ bytes_written' = 0
    /\ pc' = "write"
    /\ Quiet
    /\ UNCHANGED <<config, now, exit_code, current_time, monitor, stdout, ret,
                   cmd, was_idle>>

\* read() returns 0: end of file.
ReadEof ==
    /\ pc = "read"
    /\ bytes_read' = 0
    /\ eof_reached' = TRUE
    /\ IF config.eof_command
       THEN System("eof", "sys_eof")
       ELSE pc' = "idle_check" /\ UNCHANGED cmd
    /\ Quiet
    /\ UNCHANGED <<config, now, exit_code, current_time, last_data_time,
                   state_start_time, is_idle, buffer, bytes_written, stdin_read,
                   stdout, ret, was_idle>>

\* A variant of ReadFails that counts a failed read as activity.
ReadFailsCountingAsData ==
    /\ pc = "read"
    /\ bytes_read' = -1
    /\ \E e \in ReadErrnos :
          /\ errno' = e
          /\ IF ReadIsFatal(e)
             THEN Die
             ELSE pc' = "idle_check" /\ exit_code' = exit_code
    /\ status' = "none"
    /\ last_data_time' = current_time
    /\ UNCHANGED <<config, now, current_time, state_start_time, is_idle,
                   eof_reached, buffer, bytes_written, stdin_read, stdout, ret,
                   cmd, was_idle>>

\* read() returns -1.
ReadFails ==
    /\ pc = "read"
    /\ bytes_read' = -1
    /\ \E e \in ReadErrnos :
          /\ errno' = e
          /\ IF ReadIsFatal(e)
             THEN Die
             ELSE pc' = "idle_check" /\ exit_code' = exit_code
    /\ status' = "none"
    /\ UNCHANGED <<config, now, current_time, monitor, buffer, bytes_written,
                   stdin_read, stdout, ret, cmd, was_idle>>

\* A variant of WriteSome that calls write() once and does not loop on a
\* partial write.
WriteSomeOnce ==
    /\ pc = "write"
    /\ \E n \in 1..(bytes_read - bytes_written), d \in 0..MaxWriteTime :
          /\ now + d <= MaxTime
          /\ now' = now + d
          /\ stdout' = WriteChunk(stdout, buffer, bytes_written, n)
          /\ bytes_written' = bytes_written + n
    /\ pc' = "data_seen"
    /\ Quiet
    /\ UNCHANGED <<config, exit_code, current_time, monitor, buffer, bytes_read,
                   stdin_read, ret, cmd, was_idle>>

\* write() accepts n of the bytes still to be written, after blocking d seconds.
WriteSome ==
    /\ pc = "write"
    /\ \E n \in 1..(bytes_read - bytes_written), d \in 0..MaxWriteTime :
          /\ now + d <= MaxTime
          /\ now' = now + d
          /\ stdout' = WriteChunk(stdout, buffer, bytes_written, n)
          /\ bytes_written' = bytes_written + n
    /\ pc' = IF bytes_written' < bytes_read THEN "write" ELSE "data_seen"
    /\ Quiet
    /\ UNCHANGED <<config, exit_code, current_time, monitor, buffer, bytes_read,
                   stdin_read, ret, cmd, was_idle>>

\* write() returns -1.
WriteFails ==
    /\ pc = "write"
    /\ \E e \in WriteErrnos :
          /\ errno' = e
          /\ IF WriteIsRetried(e)
             THEN pc' = "write" /\ exit_code' = exit_code
             ELSE Die
    /\ status' = "none"
    /\ UNCHANGED <<config, now, current_time, monitor, io, ret, cmd, was_idle>>

\* A variant of DataSeen that forgets last_data_time when it flips without a
\* command.
DataSeenForgettingTime ==
    /\ pc = "data_seen"
    /\ IF is_idle
       THEN IF IdleToActiveFires(config, current_time - state_start_time)
            THEN /\ System("idle_to_active", "sys_i2a")
                 /\ UNCHANGED <<is_idle, state_start_time, last_data_time>>
            ELSE /\ BecomeActive
                 /\ last_data_time' = last_data_time
                 /\ pc' = "idle_check"
                 /\ UNCHANGED cmd
       ELSE /\ last_data_time' = current_time
            /\ pc' = "idle_check"
            /\ UNCHANGED <<is_idle, state_start_time, cmd>>
    /\ Quiet
    /\ UNCHANGED <<config, now, exit_code, current_time, eof_reached, io, ret,
                   was_idle>>

\* The chunk is written: the idle to active check, then last_data_time.
DataSeen ==
    /\ pc = "data_seen"
    /\ IF is_idle
       THEN IF IdleToActiveFires(config, current_time - state_start_time)
            THEN /\ System("idle_to_active", "sys_i2a")
                 /\ UNCHANGED <<is_idle, state_start_time, last_data_time>>
            ELSE /\ BecomeActive
                 /\ last_data_time' = current_time
                 /\ pc' = "idle_check"
                 /\ UNCHANGED cmd
       ELSE /\ last_data_time' = current_time
            /\ pc' = "idle_check"
            /\ UNCHANGED <<is_idle, state_start_time, cmd>>
    /\ Quiet
    /\ UNCHANGED <<config, now, exit_code, current_time, eof_reached, io, ret,
                   was_idle>>

\* system(config.idle_to_active_command) returns.
IdleToActiveDone ==
    /\ pc = "sys_i2a"
    /\ \E d \in 0..MaxActionTime, st \in Statuses :
          /\ SystemReturns("idle_to_active", d, st)
          /\ pc' = AfterSystem(st, "idle_check")
    /\ BecomeActive
    /\ last_data_time' = current_time
    /\ errno' = "none"
    /\ UNCHANGED <<config, exit_code, current_time, eof_reached, io, ret, was_idle>>

\* system(config.eof_command) returns.
EofDone ==
    /\ pc = "sys_eof"
    /\ \E d \in 0..MaxActionTime, st \in Statuses :
          /\ SystemReturns("eof", d, st)
          /\ pc' = AfterSystem(st, "idle_check")
    /\ errno' = "none"
    /\ UNCHANGED <<config, exit_code, current_time, monitor, io, ret, was_idle>>

\* The idle timeout check that ends every iteration.
IdleCheck ==
    /\ pc = "idle_check"
    /\ IF IdleTimeoutReached(is_idle, current_time - last_data_time, config)
       THEN IF ActiveToIdleFires(config, current_time - state_start_time)
            THEN /\ System("active_to_idle", "sys_a2i")
                 /\ UNCHANGED <<is_idle, state_start_time>>
            ELSE /\ BecomeIdle
                 /\ pc' = "loop"
                 /\ UNCHANGED cmd
       ELSE /\ pc' = "loop"
            /\ UNCHANGED <<is_idle, state_start_time, cmd>>
    /\ Quiet
    /\ UNCHANGED <<config, now, exit_code, current_time, last_data_time,
                   eof_reached, io, ret, was_idle>>

\* system(config.active_to_idle_command) returns.
ActiveToIdleDone ==
    /\ pc = "sys_a2i"
    /\ \E d \in 0..MaxActionTime, st \in Statuses :
          /\ SystemReturns("active_to_idle", d, st)
          /\ pc' = AfterSystem(st, "loop")
    /\ BecomeIdle
    /\ errno' = "none"
    /\ UNCHANGED <<config, exit_code, current_time, last_data_time, eof_reached,
                   io, ret, was_idle>>

Next ==
    \/ LoopTest
    \/ SelectFails
    \/ SelectTimesOut
    \/ SelectReady
    \/ ReadData
    \/ ReadEof
    \/ ReadFails
    \/ WriteSome
    \/ WriteFails
    \/ DataSeen
    \/ IdleToActiveDone
    \/ EofDone
    \/ IdleCheck
    \/ ActiveToIdleDone

Spec == Init /\ [][Next]_vars

\* The scheduler runs the process, and every call it blocks in returns.
FairSpec == Spec /\ WF_vars(Next)

TypeOK ==
    /\ config \in Configs
    /\ now \in 0..MaxTime
    /\ pc \in {"loop", "select", "read", "write", "data_seen", "idle_check",
               "sys_i2a", "sys_a2i", "sys_eof", "exited"}
    /\ exit_code \in {"none", "EXIT_SUCCESS", "EXIT_FAILURE"}
    /\ current_time \in 0..MaxTime
    /\ last_data_time \in 0..MaxTime
    /\ state_start_time \in 0..MaxTime
    /\ is_idle \in BOOLEAN
    /\ eof_reached \in BOOLEAN
    /\ bytes_read \in -1..MaxInput
    /\ bytes_written \in 0..MaxInput
    /\ Len(stdin_read) <= MaxInput
    /\ running \in Commands \cup {"none"}

\* ------------------------------------------------------------------ properties

IsPrefix(a, b) == Len(a) <= Len(b) /\ SubSeq(b, 1, Len(a)) = a

\* This iteration's read() delivered data (meaningful once the read is done).
GotData == ret = 1 /\ bytes_read > 0

\* A command is started in this step.
Starts(c) == calls'[c] # calls[c]

\* C1: what has been written to stdout is always a prefix of what has been read
\* from stdin, and when the process returns EXIT_SUCCESS it is all of it.
PassThrough ==
    /\ IsPrefix(stdout, stdin_read)
    /\ exit_code = "EXIT_SUCCESS" => stdout = stdin_read

\* C1 witness: a clean exit after two different bytes were forwarded across an
\* idle to active transition whose command ran.
PassThroughWitness ==
    /\ exit_code = "EXIT_SUCCESS"
    /\ Len(stdout) = 2
    /\ stdout[1] # stdout[2]
    /\ calls["idle_to_active"] >= 1

\* C2: once eof_reached is set, is_idle and state_start_time never change again
\* and neither transition command is started.
EofTerminal ==
    [][eof_reached =>
          /\ is_idle' = is_idle
          /\ state_start_time' = state_start_time
          /\ ~Starts("idle_to_active")
          /\ ~Starts("active_to_idle")]_vars

\* C3: the EOF command is started exactly when read() returns 0, hence once if it
\* is configured and never otherwise; after that read nothing is read or written
\* and no further iteration begins; the process then returns EXIT_SUCCESS.
EofHandlingInv ==
    /\ calls["eof"] = IF eof_reached /\ config.eof_command THEN 1 ELSE 0
    /\ eof_reached => pc \in {"sys_eof", "idle_check", "sys_a2i", "loop", "exited"}
    /\ eof_reached /\ pc = "exited" => exit_code = "EXIT_SUCCESS"
    /\ eof_reached /\ pc # "exited" => ENABLED Next
EofHandlingStep ==
    /\ eof_reached => stdin_read' = stdin_read /\ stdout' = stdout
    /\ Starts("eof") <=> (~eof_reached /\ eof_reached' /\ config.eof_command)
EofHandling == []EofHandlingInv /\ [][EofHandlingStep]_vars

\* C3 witness: the process has returned EXIT_SUCCESS after forwarding data and
\* running the EOF command once.
EofHandlingWitness ==
    /\ exit_code = "EXIT_SUCCESS"
    /\ calls["eof"] = 1
    /\ Len(stdout) >= 1

\* The thresholds as the code evaluates them, on the snapshot of the iteration.
IdleLongEnough == current_time - state_start_time >= config.idle_to_active_threshold
ActiveLongEnough == current_time - state_start_time >= config.active_to_idle_threshold
TimedOut == current_time - last_data_time >= config.idle_timeout

\* C4: an iteration that read data while idle ends active, and an iteration that
\* found the idle timeout reached while active ends idle, in both cases with
\* state_start_time at the iteration's snapshot; every flip sets state_start_time
\* to the snapshot, whatever the thresholds and the commands are.
FlipsUnconditionalInv ==
    pc = "loop" =>
       /\ GotData /\ was_idle => ~is_idle /\ state_start_time = current_time
       /\ ~was_idle /\ TimedOut => is_idle /\ state_start_time = current_time
FlipsUnconditionalStep ==
    is_idle' # is_idle => state_start_time' = current_time
FlipsUnconditional == []FlipsUnconditionalInv /\ [][FlipsUnconditionalStep]_vars

\* C4 witness: an iteration that read data while idle has ended, below the
\* threshold and with no command configured.
FlipsUnconditionalWitness ==
    /\ pc = "loop"
    /\ GotData
    /\ was_idle
    /\ ~is_idle
    /\ ~IdleLongEnough
    /\ ~config.idle_to_active_command
    /\ current_time > 0

\* C5: the idle to active command is started only by the idle to active check of
\* an idle monitor, once, and exactly when it is configured and the idle
\* duration has reached the threshold; the state becomes active either way, on
\* the command's return when it was started and at once when it was not.
IdleToActiveGatingStep ==
    /\ Starts("idle_to_active") =>
          /\ calls'["idle_to_active"] = calls["idle_to_active"] + 1
          /\ pc = "data_seen" /\ pc' = "sys_i2a"
          /\ is_idle
          /\ config.idle_to_active_command /\ IdleLongEnough
    /\ pc = "data_seen" /\ is_idle /\ config.idle_to_active_command /\ IdleLongEnough
          => Starts("idle_to_active")
    /\ is_idle /\ ~is_idle' =>
          (pc = "sys_i2a") = (config.idle_to_active_command /\ IdleLongEnough)
    /\ pc = "sys_i2a" /\ pc' # pc => is_idle /\ ~is_idle'
IdleToActiveGating == [][IdleToActiveGatingStep]_vars

\* C5 witness: the command has just returned and the monitor is active.
IdleToActiveGatingWitness ==
    /\ pc = "idle_check"
    /\ status # "none"
    /\ calls["idle_to_active"] = 1
    /\ ~is_idle
    /\ config.idle_to_active_threshold = 2

\* C6: the active to idle command is started only by the idle check of an active
\* monitor whose idle timeout is reached, once, and exactly when it is
\* configured and the active duration has reached the threshold.
ActiveToIdleGatingStep ==
    /\ Starts("active_to_idle") =>
          /\ calls'["active_to_idle"] = calls["active_to_idle"] + 1
          /\ pc = "idle_check" /\ pc' = "sys_a2i"
          /\ ~is_idle /\ TimedOut
          /\ config.active_to_idle_command /\ ActiveLongEnough
    /\ pc = "idle_check" /\ ~is_idle /\ TimedOut
          /\ config.active_to_idle_command /\ ActiveLongEnough
          => Starts("active_to_idle")
    /\ ~is_idle /\ is_idle' =>
          (pc = "sys_a2i") = (config.active_to_idle_command /\ ActiveLongEnough)
    /\ pc = "sys_a2i" /\ pc' # pc => ~is_idle /\ is_idle'
ActiveToIdleGating == [][ActiveToIdleGatingStep]_vars

\* C6 witness: the command has just returned and the monitor is idle again.
ActiveToIdleGatingWitness ==
    /\ pc = "loop"
    /\ status # "none"
    /\ calls["active_to_idle"] = 1
    /\ is_idle
    /\ config.active_to_idle_threshold = 2

\* C7: while a command runs the process is inside system(): nothing is read and
\* nothing is written until it has returned.
ActionsBlockInv ==
    running # "none" => pc \in {"sys_i2a", "sys_a2i", "sys_eof"}
ActionsBlockStep ==
    running # "none" \/ running' # "none" =>
       /\ stdin_read' = stdin_read
       /\ stdout' = stdout
       /\ buffer' = buffer
ActionsBlock == []ActionsBlockInv /\ [][ActionsBlockStep]_vars

\* C7 witness: a second chunk is being read after the idle to active command of
\* the first chunk has run and returned.
ActionsBlockWitness ==
    /\ pc = "write"
    /\ Len(stdin_read) = 2
    /\ Len(stdout) = 1
    /\ calls["idle_to_active"] = 1
    /\ running = "none"

\* The call of this step fails with an error the claim calls fatal.
FatalError ==
    \/ pc = "select" /\ ret' = -1
    \/ pc = "read" /\ bytes_read' = -1 /\ errno' \notin {"EAGAIN", "EWOULDBLOCK", "EINTR"}
    \/ pc = "write" /\ errno' \notin {"none", "EINTR"}

\* C8: a fatal error ends the process at once with EXIT_FAILURE, forwarding
\* nothing more, changing no state and starting no command; nothing happens
\* after the exit; EXIT_SUCCESS is reached only after end of file was seen.
FatalErrorsInv ==
    /\ exit_code = "EXIT_SUCCESS" => eof_reached
    /\ pc = "exited" <=> exit_code # "none"
FatalErrorsStep ==
    /\ pc # "exited"
    /\ FatalError =>
          /\ pc' = "exited"
          /\ exit_code' = "EXIT_FAILURE"
          /\ UNCHANGED <<stdout, monitor, calls, running>>
FatalErrors == []FatalErrorsInv /\ [][FatalErrorsStep]_vars

\* C8 witness: the process has failed on a write error after part of a chunk
\* was written.
FatalErrorsWitness ==
    /\ exit_code = "EXIT_FAILURE"
    /\ errno = "EPIPE"
    /\ Len(stdout) = 1
    /\ Len(stdin_read) = 2

\* C9: when a command returns, whatever its result, control goes to the
\* statement after the call with the state that statement expects; the process
\* never exits on a command's return.
OutcomeIgnoredStep ==
    status' # "none" =>
       /\ exit_code' = exit_code
       /\ UNCHANGED <<stdin_read, stdout, eof_reached, calls>>
       /\ pc = "sys_i2a" =>
             /\ pc' = "idle_check"
             /\ ~is_idle' /\ state_start_time' = current_time
             /\ last_data_time' = current_time
       /\ pc = "sys_eof" =>
             /\ pc' = "idle_check"
             /\ UNCHANGED <<is_idle, state_start_time, last_data_time>>
       /\ pc = "sys_a2i" =>
             /\ pc' = "loop"
             /\ is_idle' /\ state_start_time' = current_time
             /\ last_data_time' = last_data_time
OutcomeIgnoredInv ==
    exit_code = "EXIT_FAILURE" => status = "none" /\ errno # "none"
OutcomeIgnored == []OutcomeIgnoredInv /\ [][OutcomeIgnoredStep]_vars

\* C9 witness: the idle to active command has just returned a failure and the
\* monitor carries on, active.
OutcomeIgnoredWitness ==
    /\ status = "notfound"
    /\ pc = "idle_check"
    /\ ~is_idle
    /\ exit_code = "none"

Max(a, b) == IF a >= b THEN a ELSE b

\* The second at which the idle timeout is reached.
IdleMark == last_data_time + config.idle_timeout

\* C10, as claimed: an active monitor never ends an iteration whose snapshot is
\* at or after last_data_time + idle_timeout still active, and an iteration
\* without data that makes it idle has its snapshot within one poll interval of
\* that second.
IdleWithinOnePoll ==
    pc = "loop" =>
       /\ ~is_idle => ~TimedOut
       /\ ~GotData /\ ~was_idle /\ is_idle => current_time <= IdleMark + PollInterval

\* C10, amended: an active monitor never ends an iteration whose snapshot is at
\* or after last_data_time + idle_timeout still active, it becomes idle only in
\* such an iteration, and the first such snapshot is at most one poll interval
\* after the later of that second and the moment select() was entered.
IdleDetectionInv ==
    pc = "loop" /\ ~is_idle => ~TimedOut
IdleDetectionStep ==
    /\ ~is_idle /\ is_idle' => TimedOut
    /\ pc = "select" /\ pc' # "exited" =>
          /\ current_time' <= now + PollInterval
          /\ ~is_idle /\ current_time' >= IdleMark =>
                current_time' <= Max(IdleMark, now) + PollInterval
IdleDetection == []IdleDetectionInv /\ [][IdleDetectionStep]_vars

\* C10 witness: two polls without data after the last byte, the monitor became
\* idle in the second, exactly at last_data_time + idle_timeout.
IdleDetectionWitness ==
    /\ pc = "loop"
    /\ ret = 0
    /\ ~was_idle
    /\ is_idle
    /\ config.idle_timeout = 2
    /\ current_time = IdleMark

\* C11: until read() has delivered a first byte the monitor is idle, with
\* state_start_time and last_data_time still at the second the process started,
\* and no transition command has run: polls that time out, reads that would
\* block and end of file do not make it active.
InitiallyIdle ==
    stdin_read = <<>> =>
       /\ is_idle
       /\ state_start_time = 0
       /\ last_data_time = 0
       /\ calls["idle_to_active"] = 0
       /\ calls["active_to_idle"] = 0

\* C11 witness: the process has returned after two seconds of polls without
\* data, a read that would block and end of file, never having read a byte.
InitiallyIdleWitness ==
    /\ stdin_read = <<>>
    /\ eof_reached
    /\ pc = "exited"
    /\ current_time >= 2
    /\ is_idle

\* C12: at the end of every iteration the monitor is active exactly when some
\* byte has been read and the snapshot is less than idle_timeout after
\* last_data_time.
StateMeaning ==
    pc = "loop" => (~is_idle <=> (stdin_read # <<>> /\ ~TimedOut))

\* C12 witness: an iteration ends idle with data read earlier and the idle
\* timeout passed more than a second ago.
StateMeaningWitness ==
    /\ pc = "loop"
    /\ is_idle
    /\ stdin_read # <<>>
    /\ current_time > IdleMark

\* C13: a transition command is started only in a transition whose dwell has
\* reached its threshold, so a run whose dwells all stay below the thresholds
\* starts none, however often it flips; a flip below the threshold is made
\* directly by the check, and every flip restarts state_start_time at the
\* snapshot.
FlappingStep ==
    /\ Starts("idle_to_active") => IdleLongEnough
    /\ Starts("active_to_idle") => ActiveLongEnough
    /\ is_idle /\ ~is_idle' /\ ~IdleLongEnough =>
          pc = "data_seen" /\ calls' = calls
    /\ ~is_idle /\ is_idle' /\ ~ActiveLongEnough =>
          pc = "idle_check" /\ calls' = calls
    /\ is_idle' # is_idle => state_start_time' = current_time
InterruptedReadCarriesOn ==
    [][pc = "read" /\ bytes_read' = -1 /\ errno' = "EINTR" =>
          pc' = "idle_check" /\ exit_code' = "none"]_vars

\* Control is inside an iteration whose select() timed out or whose read()
\* failed without ending the process.
InNoDataIteration ==
    /\ pc \notin {"loop", "select", "exited"}
    /\ ret = 0 \/ (pc # "read" /\ bytes_read = -1)

\* C15: in an iteration whose select() timed out or whose read() would block,
\* nothing is read or written, last_data_time and eof_reached stay, the monitor
\* does not become active, neither the idle to active nor the EOF command
\* starts, and state_start_time changes only with an active to idle flip.
NoDataStep ==
    (InNoDataIteration \/ (pc = "select" /\ ret' = 0)
                       \/ (pc = "read" /\ bytes_read' = -1 /\ pc' # "exited")) =>
       /\ stdin_read' = stdin_read
       /\ stdout' = stdout
       /\ last_data_time' = last_data_time
       /\ eof_reached' = eof_reached
       /\ ~(is_idle /\ ~is_idle')
       /\ ~Starts("idle_to_active")
       /\ ~Starts("eof")
       /\ state_start_time' # state_start_time => ~is_idle /\ is_idle'
NoDataInv ==
    InNoDataIteration => pc \in {"idle_check", "sys_a2i"}
NoData == []NoDataInv /\ [][NoDataStep]_vars

\* C15 witness: an iteration whose read() would block has ended, having made
\* the active monitor idle.
NoDataWitness ==
    /\ pc = "loop"
    /\ ret = 1
    /\ bytes_read = -1
    /\ ~was_idle
    /\ is_idle
    /\ stdin_read # <<>>

\* C16, as claimed: in every step state_start_time changes exactly when is_idle
\* flips, and a flip sets it to the snapshot of the iteration.
ChangeTogetherExactly ==
    [][/\ state_start_time' # state_start_time <=> is_idle' # is_idle
       /\ is_idle' # is_idle => state_start_time' = current_time]_vars

\* C16, amended: state_start_time changes only in a step that flips is_idle, and
\* every flip sets it to the snapshot of the iteration (which may be the second
\* it already holds).
ChangeTogether ==
    [][/\ state_start_time' # state_start_time => is_idle' # is_idle
       /\ is_idle' # is_idle => state_start_time' = current_time]_vars

\* C16 witness: the iteration has just made the active monitor idle and
\* state_start_time has moved to its snapshot.
ChangeTogetherWitness ==
    /\ pc = "loop"
    /\ ~was_idle
    /\ is_idle
    /\ state_start_time = current_time
    /\ state_start_time = last_data_time + 2

\* C17: last_data_time never decreases; it changes only in the step that ends
\* the handling of a chunk read in this iteration, and then it is the snapshot
\* of this iteration.
LastDataForwardStep ==
    /\ last_data_time' >= last_data_time
    /\ last_data_time' # last_data_time =>
          /\ GotData
          /\ pc \in {"data_seen", "sys_i2a"}
          /\ last_data_time' = current_time
LastDataForwardInv ==
    /\ last_data_time <= current_time
    /\ current_time <= now
    /\ pc \in {"idle_check", "sys_a2i", "loop"} /\ GotData => last_data_time = current_time
LastDataForward == []LastDataForwardInv /\ [][LastDataForwardStep]_vars

\* C17 witness: two chunks were read in two iterations and last_data_time is
\* the snapshot of the second.
LastDataForwardWitness ==
    /\ pc = "loop"
    /\ GotData
    /\ Len(stdin_read) = 2
    /\ bytes_read = 1
    /\ last_data_time = 2
    /\ state_start_time = 0

\* C18: is_idle flips, and a transition command starts, only while is_idle is
\* still what it was when the iteration began, so an iteration makes at most
\* one transition and runs at most one transition command; an iteration that
\* read data reaches the idle check with last_data_time at the snapshot and
\* ends active.
OneTransitionStep ==
    /\ is_idle' # is_idle => is_idle = was_idle
    /\ Starts("idle_to_active") \/ Starts("active_to_idle") =>
          is_idle = was_idle /\ running = "none"
    /\ pc \in {"sys_i2a", "sys_a2i"} /\ pc' # pc => is_idle' # is_idle
OneTransitionInv ==
    pc \in {"idle_check", "sys_a2i", "loop"} /\ GotData =>
       /\ last_data_time = current_time
       /\ ~is_idle
       /\ pc # "sys_a2i"
OneTransition == []OneTransitionInv /\ [][OneTransitionStep]_vars

\* C18 witness: an idle monitor read data at a snapshot at least idle_timeout
\* after last_data_time, became active and ended the iteration active.
OneTransitionWitness ==
    /\ pc = "loop"
    /\ GotData
    /\ was_idle
    /\ ~is_idle
    /\ Len(stdin_read) = 2
    /\ bytes_read = 1
    /\ state_start_time = 2

\* C19: an active monitor has state_start_time <= last_data_time, so when it
\* becomes idle the active duration is at least the time since the last data,
\* which is at least idle_timeout; with active_to_idle_threshold <=
\* idle_timeout a configured active to idle command runs in every such
\* transition.
ThresholdBelowTimeoutStep ==
    /\ ~is_idle /\ is_idle' =>
          /\ current_time - state_start_time >= current_time - last_data_time
          /\ TimedOut
          /\ (config.active_to_idle_threshold <= config.idle_timeout
                /\ config.active_to_idle_command) => pc = "sys_a2i"
    /\ (pc = "idle_check" /\ ~is_idle /\ TimedOut
          /\ config.active_to_idle_threshold <= config.idle_timeout
          /\ config.active_to_idle_command) => Starts("active_to_idle")
ThresholdBelowTimeoutInv ==
    ~is_idle => state_start_time <= last_data_time
ThresholdBelowTimeout ==
    []ThresholdBelowTimeoutInv /\ [][ThresholdBelowTimeoutStep]_vars

\* C19 witness: with the threshold equal to an idle_timeout of two seconds the
\* command has run in an active to idle transition and has just returned.
ThresholdBelowTimeoutWitness ==
    /\ config.active_to_idle_threshold = 2
    /\ config.idle_timeout = 2
    /\ pc = "loop"
    /\ status # "none"
    /\ is_idle
    /\ calls["active_to_idle"] = 1

\* C20: when the idle to active command starts, and when the monitor becomes
\* active, the chunk just read is written in full; when the EOF command starts
\* everything read has been written; a write error that ends the process
\* leaves the state and the commands as they were.
ForwardingFirstInv ==
    /\ pc \in {"data_seen", "sys_i2a", "sys_eof"} => stdout = stdin_read
    /\ pc \in {"data_seen", "sys_i2a"} => GotData /\ bytes_written = bytes_read
ForwardingFirstStep ==
    /\ Starts("idle_to_active") \/ Starts("eof") \/ (is_idle /\ ~is_idle') =>
          stdout = stdin_read
    /\ pc = "write" /\ pc' = "exited" =>
          /\ stdout # stdin_read
          /\ UNCHANGED <<is_idle, state_start_time, last_data_time, calls, running>>
ForwardingFirst == []ForwardingFirstInv /\ [][ForwardingFirstStep]_vars

\* C20 witness: the idle to active command is running and the chunk of two
\* bytes that caused the transition is on stdout.
ForwardingFirstWitness ==
    /\ pc = "sys_i2a"
    /\ running = "idle_to_active"
    /\ bytes_read = 2
    /\ Len(stdout) = 2
    /\ is_idle

====
